---------------------------- MODULE Spec2Model ----------------------------
(***************************************************************************)
(* Model of vertex-local: the SQLite history store (db/init.js), the       *)
(* Fastify request handlers (server/server.js) and the chat page           *)
(* (client/src/routes/chat/[id]/+page.svelte).                             *)
(*                                                                         *)
(* Text is a sequence of characters; a character is an integer.  The       *)
(* characters produced by the model service for the turn handled in slot   *)
(* t are 10*t + k (k the chunk number), so that the text generated for one *)
(* turn is never the text generated for a concurrent one.                  *)
(***************************************************************************)
EXTENDS Integers, Sequences, FiniteSets, TLC

VARIABLES
    db,             \* the SQLite database: conversations, messages, messages_fts, sqlite_sequence
    now,            \* CURRENT_TIMESTAMP, in seconds
    inTransaction,  \* db.inTransaction of the single shared connection
    turn,           \* the in-flight POST /api/chat/:id handlers
    page,           \* the chat page: messages, isLoading, typewriterQueue, editing state
    last,           \* the last request handled by the server and its outcome
    lastCommit,     \* per conversation, the list written by the last committed reconcile
    completed       \* texts of the generations that completed without error

vars == <<db, now, inTransaction, turn, page, last, lastCommit, completed>>

-----------------------------------------------------------------------------
(* Bounds of the model *)

MaxConvs     == 2    \* conversations ever created
MaxMsgId     == 4    \* message rows ever inserted
MaxClock     == 1    \* seconds that pass
MaxLen       == 2    \* length of a message list sent by a direct API caller
MaxChunks    == 2    \* chunks of one generation
MaxPageLen   == 4    \* messages the page holds before a submit
MaxDateNow   == 3    \* calls of generateResponse by the page
MaxPageGens  == 2    \* the same, where the page also deletes messages

(* Program constants *)

SorryChar    == 0    \* 'Sorry, something went wrong.'
TypewriterBatch == 10

Turns        == {1, 2}     \* turn 1 is the page's request, turn 2 another caller's
PageTurn     == 1
Roles        == {"user", "model"}
BadRole      == "system"   \* a role the CHECK constraint rejects
Sorry        == <<SorryChar>>
None         == 0
ClientIdBase == 100        \* Date.now(): no id of a database row
Prompts      == {<<1>>}    \* what the user submits
EditTexts    == {<<3>>}    \* what the user types into the edit box

-----------------------------------------------------------------------------
(* Sequence helpers *)

Min(a, b) == IF a < b THEN a ELSE b

RECURSIVE SortById(_)
SortById(S) ==
    IF S = {} THEN <<>>
    ELSE LET m == CHOOSE r \in S : \A q \in S : r.id <= q.id
         IN <<m>> \o SortById(S \ {m})

RC(m) == [role |-> m.role, content |-> m.content]

RCSeq(s) == [i \in 1..Len(s) |-> RC(s[i])]

-----------------------------------------------------------------------------
(* The database: tables, constraints and triggers of db/init.js *)

EmptyDb ==
    [conversations |-> {}, messages |-> {}, messages_fts |-> {},
     seq |-> [conversations |-> 0, messages |-> 0]]

ConvIds(d) == {c.id : c \in d.conversations}

MessagesOf(d, c) == {m \in d.messages : m.conversation_id = c}

\* trigger messages_after_insert
FtsAfterInsert(fts, new) == fts \cup {[rowid |-> new.id, content |-> new.content]}

\* trigger messages_after_delete: the FTS5 'delete' command for the old row
FtsAfterDeleteDropped(fts, old) == fts
FtsAfterDelete(fts, old) == fts \ {[rowid |-> old.id, content |-> old.content]}

\* trigger messages_after_update
FtsAfterUpdate(fts, old, new) == FtsAfterInsert(FtsAfterDelete(fts, old), new)

RECURSIVE FtsAfterDeletes(_, _)
FtsAfterDeletes(fts, olds) ==
    IF olds = {} THEN fts
    ELSE LET o == CHOOSE r \in olds : TRUE
         IN FtsAfterDeletes(FtsAfterDelete(fts, o), olds \ {o})

\* A statement's outcome: ok = FALSE is a thrown SqliteError, db unchanged by it.
Ok(d)   == [ok |-> TRUE,  db |-> d]
Err(d)  == [ok |-> FALSE, db |-> d]

\* INSERT INTO conversations (title, model, system_prompt) VALUES (?, ?, ?)
createConversationStmt(d, title, model, systemPrompt, ts) ==
    LET id == d.seq.conversations + 1
    IN Ok([d EXCEPT !.conversations = @ \cup
                       {[id |-> id, title |-> title, model |-> model,
                         system_prompt |-> systemPrompt, created_at |-> ts]},
                    !.seq.conversations = id])

\* id INTEGER PRIMARY KEY AUTOINCREMENT: one more than the largest id ever
\* committed (sqlite_sequence), not one more than the largest id in the table
NextRowid(d) ==
    IF d.messages = {} THEN 1
    ELSE (CHOOSE i \in {m.id : m \in d.messages} : \A m \in d.messages : m.id <= i) + 1
NextMessageId(d) == d.seq.messages + 1

\* the insert as it would be with foreign keys switched off
insertMessageNoForeignKey(d, c, role, content, ts) ==
    IF role \notin Roles THEN Err(d)
    ELSE LET new == [id |-> NextMessageId(d), conversation_id |-> c,
                     role |-> role, content |-> content, created_at |-> ts]
         IN Ok([d EXCEPT !.messages = @ \cup {new},
                         !.messages_fts = FtsAfterInsert(@, new),
                         !.seq.messages = new.id])

\* INSERT INTO messages (conversation_id, role, content) VALUES (?, ?, ?)
\* with CHECK(role IN ('user','model')), the FOREIGN KEY and the insert trigger
insertMessageStmt(d, c, role, content, ts) ==
    IF role \notin Roles \/ c \notin ConvIds(d) THEN Err(d)
    ELSE LET new == [id |-> NextMessageId(d), conversation_id |-> c,
                     role |-> role, content |-> content, created_at |-> ts]
         IN Ok([d EXCEPT !.messages = @ \cup {new},
                         !.messages_fts = FtsAfterInsert(@, new),
                         !.seq.messages = new.id])

\* the delete as it would be without its WHERE clause
deleteAllMessagesEverywhere(d, c) ==
    Ok([d EXCEPT !.messages = {}, !.messages_fts = FtsAfterDeletes(@, d.messages)])

\* DELETE FROM messages WHERE conversation_id = ?
deleteAllMessagesStmt(d, c) ==
    Ok([d EXCEPT !.messages = @ \ MessagesOf(d, c),
                 !.messages_fts = FtsAfterDeletes(@, MessagesOf(d, c))])

\* DELETE FROM messages WHERE id = ?
deleteMessageStmt(d, id) ==
    LET olds == {m \in d.messages : m.id = id}
    IN Ok([d EXCEPT !.messages = @ \ olds,
                    !.messages_fts = FtsAfterDeletes(@, olds)])

\* UPDATE messages SET content = ? WHERE id = ?
updateMessageStmt(d, id, content) ==
    LET olds == {m \in d.messages : m.id = id}
        upd(m) == [m EXCEPT !.content = content]
    IN IF olds = {} THEN Ok(d)
       ELSE LET o == CHOOSE m \in olds : TRUE
            IN Ok([d EXCEPT !.messages = (@ \ {o}) \cup {upd(o)},
                            !.messages_fts = FtsAfterUpdate(@, o, upd(o))])

\* the request fields PATCH /api/conversations/:id accepts, and their columns
allowedFieldsAndTitle ==
    [systemPrompt |-> "system_prompt", model |-> "model", title |-> "title"]
allowedFields == [systemPrompt |-> "system_prompt", model |-> "model"]

\* UPDATE conversations SET <column = ?, ...> WHERE id = ?
\* (set: the accepted request fields with their values)
updateConversationStmt(d, c, set) ==
    LET col(k) == {f \in DOMAIN set : allowedFields[f] = k}
        upd(v) == [k \in DOMAIN v |-> IF col(k) = {} THEN v[k]
                                      ELSE set[CHOOSE f \in col(k) : TRUE]]
    IN Ok([d EXCEPT !.conversations = {IF v.id = c THEN upd(v) ELSE v : v \in @}])

\* DELETE FROM conversations WHERE id = ?  (ON DELETE CASCADE on messages)
deleteConversationNoCascade(d, c) == Ok([d EXCEPT !.conversations = {v \in @ : v.id # c}])
deleteConversationStmt(d, c) ==
    Ok([d EXCEPT !.conversations = {v \in @ : v.id # c},
                 !.messages = @ \ MessagesOf(d, c),
                 !.messages_fts = FtsAfterDeletes(@, MessagesOf(d, c))])

\* SELECT ... FROM messages WHERE conversation_id = ? ORDER BY created_at ASC:
\* every order of the rows that is ascending in created_at; rows with equal
\* created_at come in an order the query does not fix.
RECURSIVE InOrder(_)
InOrder(S) ==
    IF S = {} THEN {<<>>}
    ELSE UNION {{<<m>> \o t : t \in InOrder(S \ {m})} :
                  m \in {r \in S : \A q \in S : r.created_at <= q.created_at}}

getConversationHistoryStmt(d, c) == InOrder(MessagesOf(d, c))

\* SELECT ... FROM conversations WHERE id IN (SELECT DISTINCT conversation_id
\* FROM messages) ORDER BY created_at DESC: every order of those rows that is
\* descending in created_at; the query fixes no order among equal created_at
RECURSIVE InOrderDesc(_)
InOrderDesc(S) ==
    IF S = {} THEN {<<>>}
    ELSE UNION {{<<v>> \o t : t \in InOrderDesc(S \ {v})} :
                  v \in {r \in S : \A q \in S : r.created_at >= q.created_at}}

listConversations(d) ==
    InOrderDesc({v \in d.conversations : v.id \in {m.conversation_id : m \in d.messages}})

\* The rows of a conversation in insertion (id) order, as (role, content) pairs
Persisted(d, c) == RCSeq(SortById(MessagesOf(d, c)))

-----------------------------------------------------------------------------
(* Transactions.  env = [now, tick, fault]: the clock when the transaction  *)
(* begins, the insert before which the second rolls over (0: it does not),  *)
(* and the write statement at which the storage engine throws (0: none).    *)

Stamp(env, k) == IF env.tick # None /\ k >= env.tick THEN env.now + 1 ELSE env.now

\* db.transaction(fn)(): COMMIT when fn returns, ROLLBACK when it throws
TransactionNoRollback(d, r) == r.db
Transaction(d, r) == IF r.ok THEN r.db ELSE d

\* for (const msg of clientMessages) insertMessageStmt.run(conversationId, msg.role, msg.content)
\* insert k is write statement base + k of its transaction
RECURSIVE InsertEach(_, _, _, _, _, _)
InsertEach(r, c, msgs, k, base, env) ==
    IF ~r.ok \/ k > Len(msgs) THEN r
    ELSE IF env.fault = base + k THEN Err(r.db)
    ELSE InsertEach(insertMessageStmt(r.db, c, msgs[k].role, msgs[k].content, Stamp(env, k)),
                    c, msgs, k + 1, base, env)

\* the transaction body of POST /api/chat/:id/reconcile
reconcileNoDelete(d, c, clientMessages, env) ==
    InsertEach(Ok(d), c, clientMessages, 1, 1, env)
reconcile(d, c, clientMessages, env) ==
    LET del == IF env.fault = 1 THEN Err(d) ELSE deleteAllMessagesStmt(d, c)
    IN InsertEach(del, c, clientMessages, 1, 1, env)

\* the transaction body at the end of POST /api/chat/:id
reconcileDBNoDelete(d, c, clientMessages, fullModelResponse, env) ==
    LET r == InsertEach(Ok(d), c, clientMessages, 1, 1, env)
    IN IF ~r.ok THEN r
       ELSE insertMessageStmt(r.db, c, "model", fullModelResponse, Stamp(env, Len(clientMessages) + 1))
\* the same with the model message left out when the accumulator is empty
reconcileDBSkipsEmpty(d, c, clientMessages, fullModelResponse, env) ==
    LET del == IF env.fault = 1 THEN Err(d) ELSE deleteAllMessagesStmt(d, c)
        r   == InsertEach(del, c, clientMessages, 1, 1, env)
        n   == Len(clientMessages)
    IN IF ~r.ok \/ fullModelResponse = <<>> THEN r
       ELSE IF env.fault = n + 2 THEN Err(r.db)
       ELSE insertMessageStmt(r.db, c, "model", fullModelResponse, Stamp(env, n + 1))
reconcileDB(d, c, clientMessages, fullModelResponse, env) ==
    LET del == IF env.fault = 1 THEN Err(d) ELSE deleteAllMessagesStmt(d, c)
        r   == InsertEach(del, c, clientMessages, 1, 1, env)
        n   == Len(clientMessages)
    IN IF ~r.ok THEN r
       ELSE IF env.fault = n + 2 THEN Err(r.db)
       ELSE insertMessageStmt(r.db, c, "model", fullModelResponse, Stamp(env, n + 1))

\* SELECT role, content FROM messages WHERE conversation_id = ? AND created_at <= ?
\*   ORDER BY created_at ASC
messagesToCopy(d, sourceConversationId, created_at) ==
    InOrder({m \in MessagesOf(d, sourceConversationId) : m.created_at <= created_at})

BranchTitle(title) == <<"Branch of">> \o title

\* the transaction body of POST /api/conversations/branch; copy is the result
\* of the messagesToCopy query
branch(d, sourceConversationId, sourceMessageId, copy, env) ==
    LET sourceMessage == {m \in d.messages : m.id = sourceMessageId}
        sourceConvo   == {v \in d.conversations : v.id = sourceConversationId}
    IN IF sourceMessage = {} THEN Err(d)
       ELSE IF sourceConvo = {} THEN Err(d)
       ELSE IF env.fault = 1 THEN Err(d)
       ELSE LET src == CHOOSE v \in sourceConvo : TRUE
                cr  == createConversationStmt(d, BranchTitle(src.title), src.model,
                                              src.system_prompt, env.now)
            IN InsertEach(cr, cr.db.seq.conversations, copy, 1, 1, env)

-----------------------------------------------------------------------------
(* Requests and their inputs *)

ConvReqIds == 1..MaxConvs     \* conversation ids a request may name
MsgReqIds  == 1..MaxMsgId     \* message ids a request may name

\* the lists of a direct API caller: user and model messages in alternation,
\* the last message possibly with a role the schema rejects
ApiMsg(i) == IF i % 2 = 1 THEN [role |-> "user", content |-> <<1>>]
                          ELSE [role |-> "model", content |-> <<2>>]

ApiLists ==
    UNION {{[i \in 1..n |-> ApiMsg(i)],
            [i \in 1..n |-> IF i = n THEN [ApiMsg(i) EXCEPT !.role = BadRole] ELSE ApiMsg(i)]} :
             n \in 0..MaxLen}

Faults(n, writes) == {[now |-> now, tick |-> None, fault |-> f] : f \in 0..writes}

Envs(n, writes) ==
    {[now |-> now, tick |-> k, fault |-> None] : k \in {j \in 1..n : now < MaxClock}}
    \cup Faults(n, writes)

NoEnv == [now |-> now, tick |-> None, fault |-> None]

Sound(n, writes) == {NoEnv}

\* what may happen to a transaction of n inserts and so many writes: the clock
\* ticks or a write fails ("Envs"), a write fails ("Faults"), nothing ("Sound")
EnvsOf(e, n, writes) ==
    CASE e = "Envs" -> Envs(n, writes)
      [] e = "Faults" -> Faults(n, writes)
      [] OTHER -> Sound(n, writes)

Passed(env) == IF env.tick # None THEN env.now + 1 ELSE env.now

\* the chunk text of chunk k of the generation for turn t
ChunkChar(t, k) == 10 * t + k

\* what the model remembers of the last request: the route, the HTTP status and,
\* for a failed request, where it failed (0: at a constraint or a missing row,
\* 1: at the first write statement, 2: at a later one, 3: at the request body), for a
\* branch that committed, its source
Response(op, status, arg) == [op |-> op, status |-> status, arg |-> arg]

Outcome(op, r, env, arg) ==
    IF r.ok THEN Response(op, 200, arg) ELSE Response(op, 500, Min(env.fault, 2))

NoCommit == [list |-> <<>>, first |-> None]

Committed(d, c, list) == [list |-> list, first |-> d.seq.messages + 1]

NoTurn ==
    [pc |-> "idle", conv |-> None, clientMessages |-> <<>>, fullModelResponse |-> <<>>,
     written |-> <<>>, status |-> None, arrived |-> <<>>, reconciles |-> 0,
     channel |-> "idle"]

\* the handler has returned: its locals are gone, the response stays with the caller
Returned(tr, pc) == [tr EXCEPT !.pc = pc, !.clientMessages = <<>>, !.fullModelResponse = <<>>]

\* the chat page before it is opened; pc is the position of generateResponse
\* (idle, fetching: at  await fetch, reading: at  await reader.read()), status the
\* HTTP status of a response that arrived at once, read the number of
\* characters of the response body consumed, dateNow the reading of Date.now()
\* beside is the same position, status and count for a second invocation of
\* generateResponse that was started while the first one is still running
NoCall == [pc |-> "idle", status |-> None, read |-> 0]

NoPage ==
    [loaded |-> FALSE, conversationId |-> None, messages |-> <<>>, isLoading |-> FALSE,
     typewriterQueue |-> <<>>, editingMessageId |-> None, editingContent |-> <<>>,
     pc |-> "idle", status |-> None, read |-> 0, dateNow |-> 0, beside |-> NoCall]

Free(t) == turn[t].pc \in {"idle", "done", "failed", "persistFailed"}

Init ==
    /\ db = EmptyDb
    /\ now = 0
    /\ inTransaction = FALSE
    /\ turn = [t \in Turns |-> NoTurn]
    /\ page = NoPage
    /\ last = Response("none", None, None)
    /\ lastCommit = [c \in ConvReqIds |-> NoCommit]
    /\ completed = {}

-----------------------------------------------------------------------------
(* Server: conversation and message routes *)

\* the wall clock advances between requests
Tick ==
    /\ now < MaxClock
    /\ now' = now + 1
    /\ UNCHANGED <<db, inTransaction, turn, page, last, lastCommit, completed>>

\* POST /api/conversations
CreateConversation ==
    /\ ~inTransaction
    /\ db.seq.conversations < MaxConvs
    /\ db' = createConversationStmt(db, <<"New Chat">>, "gemini", "NULL", now).db
    /\ last' = Response("create", 200, None)
    /\ UNCHANGED <<now, inTransaction, turn, page, lastCommit, completed>>

\* DELETE /api/conversations/:id
DeleteConversation(c) ==
    /\ ~inTransaction
    /\ db' = deleteConversationStmt(db, c).db
    /\ last' = Response("deleteConversation", 204, None)
    /\ lastCommit' = [lastCommit EXCEPT ![c] = NoCommit]
    /\ UNCHANGED <<now, inTransaction, turn, page, completed>>

\* the bodies of a PATCH of a conversation: any of these fields, each with a
\* new value (a body that is absent has no field)
BodyKeys == {"title", "model", "systemPrompt"}

BodyValue(k) == IF k = "title" THEN <<"edited">> ELSE "edited"

PatchBodies == {[k \in keys |-> BodyValue(k)] : keys \in SUBSET BodyKeys}

\* PATCH /api/conversations/:id
UpdateConversation(c, body) ==
    /\ ~inTransaction
    /\ LET updates == {key \in DOMAIN body : key \in DOMAIN allowedFields}
       IN IF updates = {}
          THEN /\ last' = Response("updateConversation", 400, None)
               /\ db' = db
          ELSE /\ db' = updateConversationStmt(db, c, [key \in updates |-> body[key]]).db
               /\ last' = Response("updateConversation", 200, None)
    /\ UNCHANGED <<now, inTransaction, turn, page, lastCommit, completed>>

ConvsOfMsg(d, id) == {m.conversation_id : m \in {r \in d.messages : r.id = id}}

\* DELETE /api/messages/:id
DeleteMessage(id) ==
    /\ ~inTransaction
    /\ db' = deleteMessageStmt(db, id).db
    /\ last' = Response("deleteMessage", 204, None)
    /\ lastCommit' = [c \in ConvReqIds |->
                        IF c \in ConvsOfMsg(db, id) THEN NoCommit ELSE lastCommit[c]]
    /\ UNCHANGED <<now, inTransaction, turn, page, completed>>

\* PATCH /api/messages/:id  {content}
UpdateMessage(id, content) ==
    /\ ~inTransaction
    /\ db' = updateMessageStmt(db, id, content).db
    /\ last' = Response("updateMessage", 200, None)
    /\ lastCommit' = [c \in ConvReqIds |->
                        IF c \in ConvsOfMsg(db, id) THEN NoCommit ELSE lastCommit[c]]
    /\ UNCHANGED <<now, inTransaction, turn, page, completed>>

\* what a POST request carries: no body at all (request.body is undefined), a
\* JSON object without a messages field, or one with a messages list
Bodies == {"none", "object", "list"}

\* where a request without a body fails: at the destructuring of request.body,
\* before any statement runs
AtBody == 3

\* the route as it would be with a test for an empty list
ReconcileHandlerRejectsEmpty(c, body, clientMessages, env) ==
    /\ ~inTransaction
    /\ IF body = "none"
       THEN /\ last' = Response("reconcile", 500, AtBody)
            /\ UNCHANGED <<db, now, lastCommit>>
       ELSE IF body = "object" \/ clientMessages = <<>>
       THEN /\ last' = Response("reconcile", 400, None)
            /\ UNCHANGED <<db, now, lastCommit>>
       ELSE LET r == reconcile(db, c, clientMessages, env)
            IN /\ db' = Transaction(db, r)
               /\ now' = Passed(env)
               /\ last' = Outcome("reconcile", r, env, None)
               /\ lastCommit' = IF r.ok
                                THEN [lastCommit EXCEPT ![c] = Committed(db, c, clientMessages)]
                                ELSE lastCommit
    /\ UNCHANGED <<inTransaction, turn, completed>>

\* POST /api/chat/:id/reconcile  {messages}
\* (destructuring an undefined body throws: the error handler answers 500)
ReconcileHandler(c, body, clientMessages, env) ==
    /\ ~inTransaction
    /\ IF body = "none"
       THEN /\ last' = Response("reconcile", 500, AtBody)
            /\ UNCHANGED <<db, now, lastCommit>>
       ELSE IF body = "object"
       THEN /\ last' = Response("reconcile", 400, None)
            /\ UNCHANGED <<db, now, lastCommit>>
       ELSE LET r == reconcile(db, c, clientMessages, env)
            IN /\ db' = Transaction(db, r)
               /\ now' = Passed(env)
               /\ last' = Outcome("reconcile", r, env, None)
               /\ lastCommit' = IF r.ok
                                THEN [lastCommit EXCEPT ![c] = Committed(db, c, clientMessages)]
                                ELSE lastCommit
    /\ UNCHANGED <<inTransaction, turn, completed>>

\* the route called by a client other than the page
ReconcileRequest(c, body, clientMessages, env) ==
    ReconcileHandler(c, body, clientMessages, env) /\ UNCHANGED page

Reconcile(cs, ls, e) ==
    \E c \in cs, l \in ls :
        \E env \in EnvsOf(e, Len(l), Len(l) + 1) :
            /\ reconcile(db, c, l, env).ok => db.seq.messages + Len(l) <= MaxMsgId
            /\ ReconcileRequest(c, "list", l, env)

ReconcileNoList(cs) ==
    \E c \in cs, body \in Bodies \ {"list"} : ReconcileRequest(c, body, <<>>, NoEnv)

\* POST /api/conversations/branch  {sourceConversationId, sourceMessageId}
BranchRequest(sourceConversationId, sourceMessageId, copy, env) ==
    /\ ~inTransaction
    /\ LET r == branch(db, sourceConversationId, sourceMessageId, copy, env)
       IN /\ db' = Transaction(db, r)
          /\ now' = Passed(env)
          /\ last' = Outcome("branch", r, env, <<sourceConversationId, sourceMessageId>>)
          /\ lastCommit' = [c \in ConvReqIds |->
                              IF r.ok /\ c = db.seq.conversations + 1 THEN NoCommit
                              ELSE lastCommit[c]]
    /\ UNCHANGED <<inTransaction, turn, page, completed>>

SourceCreatedAt(d, id) == {m.created_at : m \in {r \in d.messages : r.id = id}}

CopyResults(d, c, id) ==
    IF SourceCreatedAt(d, id) = {} THEN {<<>>}
    ELSE messagesToCopy(d, c, CHOOSE ts \in SourceCreatedAt(d, id) : TRUE)

Branch(e) ==
    \E c \in ConvReqIds, id \in MsgReqIds :
        \E copy \in CopyResults(db, c, id) :
            \E env \in EnvsOf(e, Len(copy), Len(copy) + 1) :
                /\ branch(db, c, id, copy, env).ok =>
                      /\ db.seq.conversations < MaxConvs
                      /\ db.seq.messages + Len(copy) <= MaxMsgId
                /\ BranchRequest(c, id, copy, env)

-----------------------------------------------------------------------------
(* Server: POST /api/chat/:id, one action per step of the handler between   *)
(* two awaits                                                               *)

\* whether the handler leaves a transaction open across its awaits
HoldsTransactionWhileStreaming == TRUE
OpenAcrossAwait == FALSE

\* the request arrives: validation, the conversation lookup, the call of
\* googleAI.models.generateContentStream
\* (destructuring an undefined body throws inside the try: the catch block
\* answers 500)
ChatHandler(t, c, body, clientMessages) ==
    /\ Free(t)
    /\ ~inTransaction
    /\ IF body = "none"
       THEN /\ last' = Response("chat", 500, AtBody)
            /\ UNCHANGED <<turn, inTransaction>>
       ELSE IF body = "object"
       THEN /\ last' = Response("chat", 400, None)
            /\ UNCHANGED <<turn, inTransaction>>
       ELSE IF c \notin ConvIds(db)
       THEN /\ last' = Response("chat", 404, None)
            /\ UNCHANGED <<turn, inTransaction>>
       ELSE /\ turn' = [turn EXCEPT ![t] = [NoTurn EXCEPT !.pc = "waiting", !.conv = c,
                                             !.clientMessages = clientMessages]]
            /\ inTransaction' = OpenAcrossAwait
            /\ last' = Response("chat", None, None)
    /\ UNCHANGED <<db, now, lastCommit, completed>>

\* the route called by a client other than the page
ChatRequest(t, c, body, clientMessages) ==
    ChatHandler(t, c, body, clientMessages) /\ UNCHANGED page

\* generateContentStream resolves: reply.raw.writeHead(200, ...)
StreamOpen(t) ==
    /\ turn[t].pc = "waiting"
    /\ turn' = [turn EXCEPT ![t].pc = "streaming", ![t].status = 200, ![t].channel = "open"]
    /\ UNCHANGED <<db, now, inTransaction, page, last, lastCommit, completed>>

\* reply.sent: the reply was sent through reply.send, or the response has
\* ended; writing to reply.raw does not set it
replySent(tr) == tr.channel = "ended"

\* the catch block's answer.  reply.status(500).send(...) on a response whose
\* head is out throws in writeHead and writes nothing: the response stays
\* open, or the connection breaks when the rejection takes the process down
CatchBlock(tr) ==
    IF ~replySent(tr)
    THEN IF tr.status = None
         THEN {[tr EXCEPT !.status = 500, !.channel = "ended"]}
         ELSE {[tr EXCEPT !.channel = ch] :
                  ch \in IF tr.channel = "gone" THEN {"gone"} ELSE {"open", "broken"}}
    ELSE {[tr EXCEPT !.channel = "ended"]}

\* reply.raw.end() after a clean stream (nothing to end when the caller left)
rawEnd(tr) == [tr EXCEPT !.channel = IF @ = "gone" THEN @ ELSE "ended"]

\* the caller closes the connection while the turn streams.  The handler
\* listens for no close event and passes no abort signal to the model call:
\* it goes on; writes to the closed response are dropped without an error
CallerDisconnectsCancels(t) ==
    /\ turn[t].pc = "streaming" /\ turn[t].channel = "open"
    /\ turn' = [turn EXCEPT ![t] = Returned([@ EXCEPT !.channel = "gone"], "failed")]
    /\ UNCHANGED <<db, now, inTransaction, page, last, lastCommit, completed>>
CallerDisconnects(t) ==
    /\ turn[t].pc = "streaming" /\ turn[t].channel = "open"
    /\ turn' = [turn EXCEPT ![t].channel = "gone"]
    /\ UNCHANGED <<db, now, inTransaction, page, last, lastCommit, completed>>

\* generateContentStream rejects: the catch block answers 500
StreamReject(t) ==
    /\ turn[t].pc = "waiting"
    /\ \E tr \in CatchBlock(turn[t]) : turn' = [turn EXCEPT ![t] = Returned(tr, "failed")]
    /\ last' = Response("chat", 500, None)
    /\ UNCHANGED <<db, now, inTransaction, page, lastCommit, completed>>

\* one iteration of  for await (const chunk of result)
\* (arrived is the concatenation of all chunk texts so far, written the text
\* written to the response while the caller was connected)
ChunkDropped(tr, chunkText) == [tr EXCEPT !.arrived = @ \o chunkText]
Chunk(tr, chunkText) ==
    IF chunkText # <<>>
    THEN [tr EXCEPT !.fullModelResponse = @ \o chunkText,
                    !.written = IF tr.channel = "gone" THEN @ ELSE @ \o chunkText,
                    !.arrived = @ \o chunkText]
    ELSE tr

\* (were the accumulator declared outside the handler, every turn that is
\* streaming would share it)
ChatChunkShared(t, empty, n) ==
    /\ turn[t].pc = "streaming"
    /\ Len(turn[t].arrived) < n
    /\ LET chunkText == IF empty THEN <<>> ELSE <<ChunkChar(t, Len(turn[t].arrived) + 1)>>
       IN turn' = [u \in Turns |->
                     IF u = t THEN Chunk(turn[u], chunkText)
                     ELSE IF turn[u].pc = "streaming"
                          THEN [turn[u] EXCEPT !.fullModelResponse = @ \o chunkText]
                          ELSE turn[u]]
    /\ UNCHANGED <<db, now, inTransaction, page, last, lastCommit, completed>>
ChatChunk(t, empty, n) ==
    /\ turn[t].pc = "streaming"
    /\ Len(turn[t].arrived) < n
    /\ turn' = [turn EXCEPT ![t] =
                  Chunk(@, IF empty THEN <<>> ELSE <<ChunkChar(t, Len(@.arrived) + 1)>>)]
    /\ UNCHANGED <<db, now, inTransaction, page, last, lastCommit, completed>>

\* the database after the catch block: it logs and closes the response
OnStreamErrorPersists(d, tr) ==
    Transaction(d, reconcileDB(d, tr.conv, tr.clientMessages, tr.fullModelResponse,
                               [now |-> 0, tick |-> None, fault |-> None]))
OnStreamError(d, tr) == d

\* the stream throws: the catch block
ChatFail(t) ==
    /\ turn[t].pc = "streaming"
    /\ \E tr \in CatchBlock(turn[t]) : turn' = [turn EXCEPT ![t] = Returned(tr, "failed")]
    /\ db' = OnStreamError(db, turn[t])
    /\ last' = Response("chat", 500, None)
    /\ UNCHANGED <<now, inTransaction, page, lastCommit, completed>>

\* the end of the stream as it would be with reply.raw.end() ahead of the
\* reconcile: the response ends, nothing is stored in this step
ChatCompleteEndsFirst(t, env) ==
    /\ turn[t].pc = "streaming"
    /\ turn' = [turn EXCEPT ![t] = Returned(rawEnd(@), "done")]
    /\ last' = Response("persist", 200, None)
    /\ UNCHANGED <<db, now, inTransaction, page, lastCommit, completed>>

\* the stream signals completion: reconcileDB(), then reply.raw.end()
ChatComplete(t, env) ==
    /\ turn[t].pc = "streaming"
    /\ LET tr == turn[t]
           r  == reconcileDB(db, tr.conv, tr.clientMessages, tr.fullModelResponse, env)
           written == tr.clientMessages \o
                        <<[role |-> "model", content |-> tr.fullModelResponse]>>
       IN /\ db' = Transaction(db, r)
          /\ now' = Passed(env)
          /\ inTransaction' = FALSE
          /\ \E after \in IF r.ok THEN {rawEnd(tr)} ELSE CatchBlock(tr) :
                turn' = [turn EXCEPT ![t] = Returned([after EXCEPT !.reconciles = @ + 1],
                                                     IF r.ok THEN "done" ELSE "persistFailed")]
          /\ last' = Outcome("persist", r, env, None)
          /\ lastCommit' = IF r.ok
                           THEN [lastCommit EXCEPT ![tr.conv] = Committed(db, tr.conv, written)]
                           ELSE lastCommit
    /\ UNCHANGED page

ApiChat(ts, cs, ls) == \E t \in ts, c \in cs, l \in ls : ChatRequest(t, c, "list", l)

ApiChatNoList(ts, cs) ==
    \E t \in ts, c \in cs, body \in Bodies \ {"list"} : ChatRequest(t, c, body, <<>>)

ModelOpens(ts) == \E t \in ts : StreamOpen(t)

ModelRejects(ts) == \E t \in ts : StreamReject(t)

ModelChunk(ts, n) == \E t \in ts, empty \in BOOLEAN : ChatChunk(t, empty, n)

ModelFails(ts) == \E t \in ts : ChatFail(t)

ModelCompletes(ts, e) ==
    \E t \in ts :
        \E env \in EnvsOf(e, Len(turn[t].clientMessages) + 1, Len(turn[t].clientMessages) + 2) :
            /\ reconcileDB(db, turn[t].conv, turn[t].clientMessages,
                           turn[t].fullModelResponse, env).ok =>
                  db.seq.messages + Len(turn[t].clientMessages) + 1 <= MaxMsgId
            /\ ChatComplete(t, env)

-----------------------------------------------------------------------------
(* The history store: every route but the chat turn *)

StoreNext ==
    \/ Tick
    \/ CreateConversation
    \/ \E c \in ConvReqIds : DeleteConversation(c)
    \/ \E id \in MsgReqIds : DeleteMessage(id)
    \/ Reconcile(ConvReqIds, ApiLists, "Envs")
    \/ ReconcileNoList(ConvReqIds)
    \/ Branch("Envs")

SpecStore == Init /\ [][StoreNext]_vars

(* C1: after a successful reconcile of a conversation with list L, every read *)
(* of the conversation in ascending created_at order returns exactly L, in    *)
(* the submitted order, also when rows share a creation timestamp.            *)
C1_ReadReturnsSubmitted ==
    \A c \in ConvReqIds :
        lastCommit[c].first # None =>
            \A h \in getConversationHistoryStmt(db, c) : RCSeq(h) = lastCommit[c].list

(* C5: a branch from message M of conversation A creates a conversation whose *)
(* messages are exactly the messages of A up to and including M, in A's       *)
(* order, and leaves the messages of A as they were.                          *)
BranchCommits ==
    /\ last'.op = "branch" /\ last'.status = 200
    /\ db'.seq.conversations = db.seq.conversations + 1

C5_BranchIsPrefix ==
    [][BranchCommits /\ last'.arg[2] \in {m.id : m \in MessagesOf(db, last'.arg[1])} =>
         /\ Persisted(db', db'.seq.conversations) =
              RCSeq(SortById({m \in MessagesOf(db, last'.arg[1]) : m.id <= last'.arg[2]}))
         /\ MessagesOf(db', last'.arg[1]) = MessagesOf(db, last'.arg[1])]_vars

(* C6: a branch request that fails leaves no new conversation row and no      *)
(* copied message row; one that succeeds leaves the new conversation and a    *)
(* copy of every row the copy query selected.                                 *)
C6_BranchAtomic ==
    [][last'.op = "branch" =>
         /\ last'.status = 500 => db' = db
         /\ BranchCommits =>
              /\ db'.seq.conversations \in ConvIds(db')
              /\ \E copy \in CopyResults(db, last'.arg[1], last'.arg[2]) :
                    Persisted(db', db'.seq.conversations) = RCSeq(copy)
              /\ db'.messages \ MessagesOf(db', db'.seq.conversations) = db.messages]_vars

C6_Witness ==
    /\ last.op = "branch" /\ last.status = 500 /\ last.arg = 2
    /\ db.conversations # {}


-----------------------------------------------------------------------------
(* The chat turn of one direct API caller, with reconciles of other callers; *)
(* the clock stands still                                                    *)

ShortLists == {l \in ApiLists : Len(l) <= 1}

ChatNext ==
    \/ CreateConversation
    \/ Reconcile(ConvReqIds, ShortLists, "Faults")
    \/ ReconcileNoList(ConvReqIds)
    \/ ApiChat({2}, {1}, ShortLists)
    \/ ApiChatNoList({2}, {1})
    \/ ModelOpens({2})
    \/ ModelRejects({2})
    \/ ModelChunk({2}, MaxChunks)
    \/ ModelFails({2})
    \/ ModelCompletes({2}, "Faults") /\ UNCHANGED completed

SpecChat == Init /\ [][ChatNext]_vars

(* C2: a reconcile, from the reconcile endpoint or at the end of a chat turn, *)
(* that fails at its delete or at any insert leaves the database as it was:   *)
(* no old row is lost, no new row is committed.                               *)
C2_ReconcileAllOrNothing ==
    [][last'.op \in {"reconcile", "persist"} /\ last'.status = 500 => db' = db]_vars

C2_Witness ==
    /\ last.op = "persist" /\ last.status = 500 /\ last.arg = 2
    /\ turn[2].pc = "persistFailed"
    /\ MessagesOf(db, turn[2].conv) # {}

(* C3: every step of a chat turn up to and including a failure of the model   *)
(* service (before the first chunk or after any number of chunks) leaves the  *)
(* database unchanged and performs no reconcile.                              *)
C3_FailedTurnPersistsNothing ==
    [][\A t \in Turns :
         turn'[t] # turn[t] /\ turn'[t].pc \notin {"done", "persistFailed"} =>
             db' = db /\ turn'[t].reconciles = 0]_vars

C3_Witness ==
    /\ turn[2].pc = "failed" /\ Len(turn[2].written) = MaxChunks
    /\ MessagesOf(db, turn[2].conv) # {}

(* C8 as stated: whenever the model stream of a turn completes cleanly, the   *)
(* persisted history becomes the client list followed by one model message    *)
(* holding the concatenation of the chunks, by exactly one reconcile.         *)
StreamCompletes(t) == turn[t].pc = "streaming" /\ turn'[t].pc \in {"done", "persistFailed"}

TurnResult(t) ==
    RCSeq(turn[t].clientMessages) \o <<[role |-> "model", content |-> turn[t].arrived]>>

C8_CompletedTurnPersists ==
    [][\A t \in Turns :
         StreamCompletes(t) =>
             /\ turn'[t].reconciles = 1
             /\ Persisted(db', turn[t].conv) = TurnResult(t)]_vars

(* C8 amended: whenever the model stream of a turn completes cleanly, the     *)
(* reconcile is performed exactly once, after the last chunk, and when it     *)
(* commits the persisted history is the client list followed by one model     *)
(* message holding the concatenation, in arrival order, of the chunks.        *)
C8_CompletedTurnReconcilesOnce ==
    [][\A t \in Turns :
         /\ StreamCompletes(t) =>
              /\ turn'[t].reconciles = 1
              /\ turn'[t].pc = "done" => Persisted(db', turn[t].conv) = TurnResult(t)
         /\ turn'[t].reconciles # turn[t].reconciles => StreamCompletes(t) \/ turn'[t].reconciles = 0]_vars

C8_Witness ==
    /\ turn[2].pc = "done" /\ turn[2].reconciles = 1 /\ Len(turn[2].arrived) = MaxChunks
    /\ last.op = "persist" /\ last.status = 200
    /\ Len(Persisted(db, turn[2].conv)) = 2

(* C10: while a chat turn waits for or relays model chunks no transaction is  *)
(* open, and a reconcile, a message delete, a conversation delete and a       *)
(* branch request are all able to run and commit.                             *)
InFlight(t) == turn[t].pc \in {"waiting", "streaming"}

C10_NoTransactionWhileStreaming ==
    \A t \in Turns :
        InFlight(t) =>
            /\ ~inTransaction
            /\ ENABLED ReconcileRequest(turn[t].conv, "list", <<>>, NoEnv)
            /\ ENABLED DeleteMessage(1)
            /\ ENABLED DeleteConversation(turn[t].conv)
            /\ ENABLED BranchRequest(turn[t].conv, 1, <<>>, NoEnv)

C10_Witness ==
    /\ turn[2].pc = "streaming" /\ Len(turn[2].arrived) >= 1
    /\ last.op = "reconcile" /\ last.status = 200
    /\ lastCommit[turn[2].conv].first # None

-----------------------------------------------------------------------------
(* Two chat turns and a reconcile racing on conversation 1 *)

RaceLists == {l \in ShortLists : \A i \in 1..Len(l) : l[i].role \in Roles}

RaceNext ==
    \/ CreateConversation /\ db.seq.conversations = 0
    \/ Reconcile({1}, RaceLists \ {<<>>}, "Faults")
    \/ ApiChat(Turns, {1}, RaceLists)
    \/ ModelOpens(Turns)
    \/ ModelRejects(Turns)
    \/ ModelChunk(Turns, MaxChunks)
    \/ ModelFails(Turns)
    \/ ModelCompletes(Turns, "Faults") /\ UNCHANGED completed

SpecRace == Init /\ [][RaceNext]_vars

(* C9: when reconciles race on a conversation, its rows are exactly the list  *)
(* written by the reconcile that committed last, in rows inserted by that     *)
(* reconcile: never a row of an earlier reconcile, never a mixture.           *)
C9_LastReconcileWins ==
    \A c \in ConvReqIds :
        lastCommit[c].first # None =>
            /\ Persisted(db, c) = RCSeq(lastCommit[c].list)
            /\ {m.id : m \in MessagesOf(db, c)} =
                   lastCommit[c].first .. (lastCommit[c].first + Len(lastCommit[c].list) - 1)

C9_Witness ==
    /\ turn[1].pc = "done" /\ turn[2].pc = "done"
    /\ turn[1].conv = turn[2].conv
    /\ db.seq.messages > Len(lastCommit[1].list)
    /\ lastCommit[1].list # <<>>
    /\ lastCommit[1].list[Len(lastCommit[1].list)].content = turn[1].arrived
    /\ turn[1].arrived # <<>> /\ turn[2].arrived # <<>>

-----------------------------------------------------------------------------
(* The server with one direct API caller of the chat route: every write *)

Next ==
    \/ CreateConversation /\ db.seq.conversations = 0
    \/ \E c \in ConvReqIds : DeleteConversation(c)
    \/ \E id \in MsgReqIds : DeleteMessage(id)
    \/ \E id \in MsgReqIds : UpdateMessage(id, <<3>>)
    \/ Reconcile({1}, ShortLists, "Faults")
    \/ ReconcileNoList({1})
    \/ Branch("Faults")
    \/ ApiChat({2}, {1}, RaceLists \ {<<>>})
    \/ ModelOpens({2})
    \/ ModelRejects({2})
    \/ ModelChunk({2}, 1)
    \/ ModelFails({2})
    \/ ModelCompletes({2}, "Faults") /\ UNCHANGED completed

Spec == Init /\ [][Next]_vars

(* C7: after every completed write the full-text index holds exactly one      *)
(* entry per existing message id, with that message's content, and no entry   *)
(* for an id that is not in the messages table.                               *)
C7_FtsMirrorsMessages ==
    /\ db.messages_fts = {[rowid |-> m.id, content |-> m.content] : m \in db.messages}
    /\ Cardinality(db.messages_fts) = Cardinality(db.messages)

C7_Witness ==
    /\ \E m \in db.messages : m.content = <<3>>
    /\ Cardinality(db.messages) < db.seq.messages
    /\ last.op = "deleteConversation"
    /\ Cardinality(ConvIds(db)) < db.seq.conversations

-----------------------------------------------------------------------------
(* Client: the chat page.  saveEdit is the handler run while no response is   *)
(* loading; saveEditLoading, further down, is the same handler run while one *)
(* is.                                                                       *)

Message(id, role, content) == [id |-> id, role |-> role, content |-> content]

\* the page is created with the conversation and the messages read for it
OpenPage(c) ==
    /\ ~page.loaded
    /\ c \in ConvIds(db)
    /\ \E h \in getConversationHistoryStmt(db, c) :
          page' = [NoPage EXCEPT
                     !.loaded = TRUE, !.conversationId = c,
                     !.messages = [i \in 1..Len(h) |-> Message(h[i].id, h[i].role, h[i].content)]]
    /\ UNCHANGED <<db, now, inTransaction, turn, last, lastCommit, completed>>

\* generateResponse: the list it sends (no prompt is the empty string)
messagesForApi(pg, userPrompt) ==
    IF userPrompt # <<>>
    THEN pg.messages \o <<Message(ClientIdBase + 2 * pg.dateNow, "user", userPrompt)>>
    ELSE pg.messages

\* generateResponse up to  await fetch : the request reaches the server
generateResponse(pg, userPrompt) ==
    /\ pg.dateNow < MaxDateNow
    /\ ChatHandler(PageTurn, pg.conversationId, "list", RCSeq(messagesForApi(pg, userPrompt)))
    /\ page' = [pg EXCEPT
                  !.isLoading = TRUE,
                  !.messages = messagesForApi(pg, userPrompt) \o
                                 <<Message(ClientIdBase + 2 * pg.dateNow + 1, "model", <<>>)>>,
                  !.dateNow = @ + 1,
                  !.pc = "fetching", !.status = last'.status, !.read = 0]

handleSubmit(prompt) ==
    /\ page.loaded
    /\ ~(prompt = <<>> \/ page.isLoading \/ page.conversationId = None)
    /\ Len(page.messages) + 2 <= MaxPageLen
    /\ generateResponse(page, prompt)

\* generateResponse: catch and finally
Caught(pg) ==
    [pg EXCEPT !.messages = IF @ = <<>> THEN @ ELSE [@ EXCEPT ![Len(@)].content = Sorry],
               !.isLoading = FALSE, !.pc = "idle"]

\* generateResponse: finally, after the loop ended with done
Finished(pg) == [pg EXCEPT !.isLoading = FALSE, !.pc = "idle"]

\* await fetch resolves: the status line of the response
PageResponse ==
    /\ page.pc = "fetching"
    /\ \/ /\ page.status = 404 \/ (turn[PageTurn].pc = "failed" /\ turn[PageTurn].status = 500)
          /\ page' = Caught(page)
       \/ /\ page.status # 404 /\ turn[PageTurn].status = 200
          /\ page' = [page EXCEPT !.pc = "reading"]
    /\ UNCHANGED <<db, now, inTransaction, turn, last, lastCommit, completed>>

\* await reader.read() resolves with the bytes written so far, or with done
\* when the response has ended, or rejects when the connection broke
PageRead ==
    /\ page.pc = "reading"
    /\ LET tr == turn[PageTurn]
       IN IF page.read < Len(tr.written)
          THEN page' = [page EXCEPT
                          !.typewriterQueue = @ \o SubSeq(tr.written, page.read + 1, Len(tr.written)),
                          !.read = Len(tr.written)]
          ELSE \/ tr.channel = "ended" /\ page' = Finished(page)
               \/ tr.channel = "broken" /\ page' = Caught(page)
    /\ UNCHANGED <<db, now, inTransaction, turn, last, lastCommit, completed>>

\* one tick of the interval of startTypewriter
Typewriter ==
    /\ page.loaded
    /\ page.typewriterQueue # <<>> /\ ~page.isLoading
    /\ LET q == page.typewriterQueue
           n == Min(TypewriterBatch, Len(q))
       IN page' = [page EXCEPT
                     !.typewriterQueue = SubSeq(q, n + 1, Len(q)),
                     !.messages = IF @ = <<>> THEN @
                                  ELSE [@ EXCEPT ![Len(@)].content = @ \o SubSeq(q, 1, n)]]
    /\ UNCHANGED <<db, now, inTransaction, turn, last, lastCommit, completed>>

\* startEditing(message), from the Edit button of a user message
startEditing(i) ==
    /\ page.loaded
    /\ i \in 1..Len(page.messages)
    /\ page.messages[i].role = "user"
    /\ page' = [page EXCEPT !.editingMessageId = page.messages[i].id,
                            !.editingContent = page.messages[i].content]
    /\ UNCHANGED <<db, now, inTransaction, turn, last, lastCommit, completed>>

\* the user types into the edit box (bind:value={editingContent}), which is
\* there for the message whose id is editingMessageId
EditInput(content) ==
    /\ page.editingMessageId # None
    /\ \E i \in 1..Len(page.messages) : page.messages[i].id = page.editingMessageId
    /\ page' = [page EXCEPT !.editingContent = content]
    /\ UNCHANGED <<db, now, inTransaction, turn, last, lastCommit, completed>>

cancelKeepsDraft(pg) == [pg EXCEPT !.editingMessageId = None]
cancelEditing(pg) == [pg EXCEPT !.editingMessageId = None, !.editingContent = <<>>]

CancelEdit ==
    /\ page.editingMessageId # None
    /\ page' = cancelEditing(page)
    /\ UNCHANGED <<db, now, inTransaction, turn, last, lastCommit, completed>>

findIndex(messages, id) ==
    LET found == {i \in 1..Len(messages) : messages[i].id = id}
    IN IF found = {} THEN None ELSE CHOOSE i \in found : \A j \in found : i <= j

\* the list up to the edited message, with the new content
KeepFollowing(messages, messageIndex, newContent) ==
    [messages EXCEPT ![messageIndex].content = newContent]
Truncate(messages, messageIndex, newContent) ==
    SubSeq(messages, 1, messageIndex - 1) \o
        <<[messages[messageIndex] EXCEPT !.content = newContent]>>

saveEdit ==
    /\ page.editingMessageId # None
    /\ ~page.isLoading
    /\ LET messageIndex == findIndex(page.messages, page.editingMessageId)
           isFollowedByModel ==
               /\ messageIndex < Len(page.messages)
               /\ page.messages[messageIndex + 1].role = "model"
           truncated == Truncate(page.messages, messageIndex, page.editingContent)
           pg == cancelEditing([page EXCEPT !.messages = truncated])
       IN /\ messageIndex # None
          /\ IF isFollowedByModel
             THEN generateResponse(pg, <<>>)
             ELSE /\ db.seq.messages + Len(truncated) <= MaxMsgId
                  /\ ReconcileHandler(page.conversationId, "list", RCSeq(truncated), NoEnv)
                  /\ page' = [pg EXCEPT !.isLoading = FALSE]

\* handleDelete: the message leaves the list, then DELETE /api/messages/<its id>
handleDelete(i) ==
    /\ page.loaded
    /\ i \in 1..Len(page.messages)
    /\ page' = [page EXCEPT !.messages = SelectSeq(@, LAMBDA m : m.id # page.messages[i].id)]
    /\ ~inTransaction
    /\ db' = deleteMessageStmt(db, page.messages[i].id).db
    /\ last' = Response("deleteMessage", 204, page.messages[i].id)
    /\ lastCommit' = [c \in ConvReqIds |->
                        IF c \in ConvsOfMsg(db, page.messages[i].id) THEN NoCommit
                        ELSE lastCommit[c]]
    /\ UNCHANGED <<now, inTransaction, turn, completed>>

-----------------------------------------------------------------------------
(* The whole system: the server and one chat page on conversation 1 *)

PagePositions == 1..MaxPageLen

\* the texts of the generations that completed without error
GenerationCompletes(t) == completed' = completed \cup {turn[t].arrived}

SystemNext ==
    \/ CreateConversation /\ db.seq.conversations = 0
    \/ DeleteConversation(1)
    \/ OpenPage(1)
    \/ \E prompt \in Prompts : handleSubmit(prompt)
    \/ PageResponse
    \/ PageRead
    \/ Typewriter
    \/ \E i \in PagePositions : startEditing(i)
    \/ \E content \in EditTexts : EditInput(content)
    \/ CancelEdit
    \/ saveEdit
    \/ ModelOpens({PageTurn})
    \/ ModelRejects({PageTurn})
    \/ ModelChunk({PageTurn}, MaxChunks)
    \/ ModelFails({PageTurn})
    \/ ModelCompletes({PageTurn}, "Sound") /\ GenerationCompletes(PageTurn)

SpecSystem == Init /\ [][SystemNext]_vars

(* C4: in every reachable state of the page and the server, every persisted   *)
(* message with role model holds the text of a generation that completed      *)
(* without error: neither a partial stream nor the page's error placeholder   *)
(* is persisted, also not by a later turn or reconcile of the page.           *)
C4_OnlyCompletedGenerationsPersisted ==
    \A m \in db.messages : m.role = "model" => m.content \in completed

-----------------------------------------------------------------------------
(* Message identities *)

IdsOf(S) == {m.id : m \in S}

\* a reconcile of conversation c, by either route, commits in this step
ReconcileCommits(c) ==
    /\ last'.op \in {"reconcile", "persist"} /\ last'.status = 200
    /\ lastCommit'[c].first = db.seq.messages + 1

(* C11: a committed reconcile of conversation c leaves no message id that c   *)
(* held before it, and no step ever gives a new row an id that was in use     *)
(* before: an id captured before a reconcile never names another message.     *)
C11_ReconcileDiscardsIds ==
    [][/\ \A c \in ConvReqIds :
            ReconcileCommits(c) => IdsOf(MessagesOf(db, c)) \cap IdsOf(db'.messages) = {}
       /\ \A id \in IdsOf(db.messages) : id <= db.seq.messages
       /\ \A id \in IdsOf(db'.messages) \ IdsOf(db.messages) : id > db.seq.messages
       /\ db'.seq.messages >= db.seq.messages]_vars

C11_Witness ==
    /\ last.op = "reconcile" /\ last.status = 200
    /\ lastCommit[1].first > 1 /\ lastCommit[1].list # <<>>
    /\ IdsOf(MessagesOf(db, 1)) = lastCommit[1].first .. db.seq.messages

-----------------------------------------------------------------------------
(* Editing in the chat page *)

\* the in-memory list cut after the message being edited, with the typed text
EditedList(pg) ==
    LET at == {i \in 1..Len(pg.messages) : pg.messages[i].id = pg.editingMessageId}
        i  == CHOOSE j \in at : \A k \in at : j <= k
    IN [k \in 1..i |-> IF k = i THEN [pg.messages[k] EXCEPT !.content = pg.editingContent]
                       ELSE pg.messages[k]]

EditIndex(pg) ==
    CHOOSE j \in 1..Len(pg.messages) :
        /\ pg.messages[j].id = pg.editingMessageId
        /\ \A k \in 1..(j - 1) : pg.messages[k].id # pg.editingMessageId

SavesEdit == page.editingMessageId # None /\ page'.editingMessageId = None /\ page' # cancelEditing(page)

FollowedByModel(pg) ==
    /\ EditIndex(pg) < Len(pg.messages)
    /\ pg.messages[EditIndex(pg) + 1].role = "model"

(* C12: saving an edit of a message followed by a model message cuts the      *)
(* in-memory list after the edited message and starts a turn with that list;  *)
(* the turn keeps the list, and when it completes with text T the persisted   *)
(* history is the cut list followed by model:T, in rows that are all new.     *)
C12_EditRegenerates ==
    [][/\ SavesEdit /\ FollowedByModel(page) /\ page'.status # 404 =>
            /\ RCSeq(page'.messages) =
                   RCSeq(EditedList(page)) \o <<[role |-> "model", content |-> <<>>]>>
            /\ turn'[PageTurn].pc = "waiting"
            /\ turn'[PageTurn].clientMessages = RCSeq(EditedList(page))
       /\ InFlight(PageTurn) /\ turn'[PageTurn].pc \in {"waiting", "streaming"} =>
            turn'[PageTurn].clientMessages = turn[PageTurn].clientMessages
       /\ turn[PageTurn].pc = "streaming" /\ turn'[PageTurn].pc = "done" =>
            /\ Persisted(db', turn[PageTurn].conv) = TurnResult(PageTurn)
            /\ IdsOf(db'.messages) \cap IdsOf(db.messages) = {}]_vars

C12_Witness ==
    /\ turn[PageTurn].pc = "done" /\ page.pc = "idle"
    /\ Persisted(db, 1) = <<[role |-> "user", content |-> <<3>>],
                            [role |-> "model", content |-> turn[PageTurn].arrived]>>
    /\ turn[PageTurn].arrived # <<>>
    /\ IdsOf(db.messages) = {3, 4}

-----------------------------------------------------------------------------
(* The chat page editing and deleting messages of conversation 1, which       *)
(* another caller has filled before the page is opened                        *)

SeedLists == {l \in ApiLists : l # <<>> /\ \A i \in 1..Len(l) : l[i].role \in Roles}

PageNext ==
    \/ CreateConversation /\ db.seq.conversations = 0
    \/ ~page.loaded /\ Reconcile({1}, SeedLists, "Sound")
    \/ OpenPage(1)
    \/ \E prompt \in Prompts : page.dateNow < MaxPageGens /\ handleSubmit(prompt)
    \/ PageResponse
    \/ PageRead
    \/ Typewriter
    \/ \E i \in PagePositions : startEditing(i)
    \/ \E content \in EditTexts : EditInput(content)
    \/ page.dateNow < MaxPageGens /\ saveEdit
    \/ \E i \in PagePositions : handleDelete(i)
    \/ ModelOpens({PageTurn})
    \/ ModelRejects({PageTurn})
    \/ ModelChunk({PageTurn}, 1)
    \/ ModelCompletes({PageTurn}, "Sound") /\ GenerationCompletes(PageTurn)

SpecPage == Init /\ [][PageNext]_vars

(* C13: saving an edit of the trailing message of the in-memory list calls    *)
(* the reconcile route with the edited list: no generation is started, and    *)
(* afterwards the persisted history is the in-memory list with the edit.      *)
C13_TailEditReconciles ==
    [][SavesEdit /\ EditIndex(page) = Len(page.messages) =>
         /\ last'.op = "reconcile" /\ last'.status = 200
         /\ turn' = turn /\ completed' = completed
         /\ page'.pc = "idle" /\ ~page'.isLoading /\ page'.dateNow = page.dateNow
         /\ RCSeq(page'.messages) = RCSeq(EditedList(page))
         /\ Persisted(db', page.conversationId) = RCSeq(page'.messages)]_vars

C13_Witness ==
    /\ last.op = "reconcile" /\ last.status = 200
    /\ page.loaded /\ page.dateNow = 0 /\ page.editingMessageId = None
    /\ Len(page.messages) = 1 /\ page.messages[1].content \in EditTexts
    /\ Persisted(db, 1) = RCSeq(page.messages)
    /\ db.seq.messages >= 2

\* the page deletes a message in this step
Deletes ==
    /\ last'.op = "deleteMessage"
    /\ Len(page'.messages) = Len(page.messages) - 1

Without(list, i) == [k \in 1..(Len(list) - 1) |-> IF k < i THEN list[k] ELSE list[k + 1]]

(* C14: when the page shows the persisted history, a Delete of a message of   *)
(* the page removes that message from the in-memory list and from storage     *)
(* and changes no other message: both lose exactly the target.                *)
C14_DeleteRemovesTarget ==
    [][Deletes /\ Persisted(db, page.conversationId) = RCSeq(page.messages) =>
         \E i \in 1..Len(page.messages) :
            /\ page.messages[i].id = last'.arg
            /\ page'.messages = Without(page.messages, i)
            /\ Persisted(db', page.conversationId) = Without(Persisted(db, page.conversationId), i)]_vars

-----------------------------------------------------------------------------
(* The reconcile route on its own *)

(* C15: a reconcile of a conversation with the list that the reconcile before *)
(* it wrote leaves the persisted (role, content) sequence as it was.          *)
C15_ReconcileIdempotent ==
    [][\A c \in ConvReqIds :
         /\ ReconcileCommits(c) /\ last'.op = "reconcile"
         /\ lastCommit[c].first # None
         /\ lastCommit'[c].list = lastCommit[c].list
         => /\ Persisted(db', c) = Persisted(db, c)
            /\ Persisted(db', c) = RCSeq(lastCommit[c].list)]_vars

C15_Witness ==
    /\ last.op = "reconcile" /\ last.status = 200
    /\ db.seq.conversations = 1
    /\ lastCommit[1].first = MaxLen + 1 /\ Len(lastCommit[1].list) = MaxLen
    /\ Persisted(db, 1) = RCSeq(lastCommit[1].list)

-----------------------------------------------------------------------------
(* Streaming *)

(* C16: at every instant of a chat turn the bytes written to the caller are   *)
(* the concatenation, in arrival order, of the chunks received so far, and    *)
(* while the handler runs its accumulator equals the bytes written.           *)
C16_ForwardedInOrder ==
    \A t \in Turns :
        /\ turn[t].written = turn[t].arrived
        /\ turn[t].pc = "streaming" => turn[t].fullModelResponse = turn[t].written

C16_Witness ==
    /\ turn[2].pc = "streaming"
    /\ turn[2].written = <<ChunkChar(2, 1), ChunkChar(2, 2)>>
    /\ turn[2].fullModelResponse = turn[2].written

(* C17: when the model service fails during a turn, a caller who was sent     *)
(* nothing receives a server error; a caller who was sent the head or bytes   *)
(* of the stream has the channel ended with no further byte; no reconcile is  *)
(* attempted either way.                                                      *)
C17_FailureEndsChannel ==
    [][\A t \in Turns :
         InFlight(t) /\ turn'[t].pc = "failed" =>
            /\ turn[t].status = None => turn'[t].status = 500
            /\ turn'[t].channel = "ended"
            /\ turn'[t].written = turn[t].written
            /\ turn'[t].reconciles = 0 /\ db' = db]_vars

-----------------------------------------------------------------------------
(* Requests that name a conversation or a message that does not exist *)

ClientErrors == 400..499

\* the request is the branch of source message id of source conversation c
Branches(c, id) ==
    \E copy \in CopyResults(db, c, id) :
        \E env \in Envs(Len(copy), Len(copy) + 1) : BranchRequest(c, id, copy, env)

(* C18: a branch request whose source message or source conversation does not *)
(* exist is answered with a client error (NotFound), not with a generic       *)
(* server error, and changes nothing in storage.                              *)
C18_BranchOfMissingSource ==
    [][\A c \in ConvReqIds, id \in MsgReqIds :
         /\ Branches(c, id)
         /\ c \notin ConvIds(db) \/ id \notin IdsOf(db.messages)
         => last'.status \in ClientErrors /\ db' = db]_vars

\* the request is a chat turn for conversation c, with a messages list
Chats(c) == \E t \in Turns, l \in ApiLists : ChatRequest(t, c, "list", l)

\* the request is a reconcile of conversation c, with a messages list
Reconciles(c) ==
    \E l \in ApiLists :
        \E env \in Envs(Len(l), Len(l) + 1) : ReconcileRequest(c, "list", l, env)

(* C19: a chat turn or a reconcile for a conversation id that does not exist  *)
(* is answered with a client error (NotFound), starts no model generation and *)
(* deletes or inserts no message row.                                         *)
C19_MissingConversation ==
    [][\A c \in ConvReqIds :
         /\ c \notin ConvIds(db)
         /\ Chats(c) \/ Reconciles(c)
         => /\ last'.status \in ClientErrors
            /\ turn' = turn
            /\ db'.messages = db.messages]_vars

(* C20: deleting a message, or patching a message's content, with a message  *)
(* id that does not exist is answered with a client error (NotFound) and      *)
(* changes nothing in storage.                                                *)
C20_MissingMessage ==
    [][\A id \in MsgReqIds :
         /\ id \notin IdsOf(db.messages)
         /\ DeleteMessage(id) \/ \E content \in EditTexts : UpdateMessage(id, content)
         => last'.status \in ClientErrors /\ db' = db]_vars

\* the request is a chat turn or a reconcile for conversation c that carries
\* no messages list
WithoutList(c) ==
    \E body \in Bodies \ {"list"} :
        \/ \E t \in Turns : ChatRequest(t, c, body, <<>>)
        \/ ReconcileRequest(c, body, <<>>, NoEnv)

(* C21: a chat turn or a reconcile whose messages list is absent is answered  *)
(* with a client error and effects nothing: no generation starts and the      *)
(* persisted messages of every conversation are unchanged.                    *)
C21_MissingListRejected ==
    [][\A c \in ConvReqIds :
         WithoutList(c) => last'.status \in ClientErrors /\ turn' = turn /\ db' = db]_vars

-----------------------------------------------------------------------------
(* Conversations *)

(* C22: deleting conversation c removes c, all its messages and their index   *)
(* entries and leaves every other conversation, message and index entry as    *)
(* it was; it answers without error also when c does not exist, and then      *)
(* changes nothing, so that a second delete of c changes nothing.             *)
C22_DeleteConversationCascades ==
    [][\A c \in ConvReqIds :
         DeleteConversation(c) =>
            /\ last'.status = 204
            /\ db'.conversations = {v \in db.conversations : v.id # c}
            /\ db'.messages = {m \in db.messages : m.conversation_id # c}
            /\ db'.messages_fts =
                  {e \in db.messages_fts :
                      \A m \in db.messages : m.conversation_id = c => e.rowid # m.id}
            /\ db'.seq = db.seq
            /\ c \notin ConvIds(db) => db' = db
            /\ deleteConversationStmt(db', c).db = db']_vars

C22_Witness ==
    /\ last.op = "deleteConversation"
    /\ ConvIds(db) = {1} /\ db.seq.conversations = 2
    /\ IdsOf(db.messages) = {1} /\ db.seq.messages = 3
    /\ db.messages_fts = {[rowid |-> 1, content |-> <<1>>]}

\* the conversations that hold at least one persisted message
WithMessages(d) == {c \in ConvIds(d) : MessagesOf(d, c) # {}}

(* C23: in every reachable state the conversation list holds exactly the      *)
(* conversations with at least one persisted message, each once, the newer    *)
(* conversation (the one created later) before the older.                     *)
C23_ListNewestFirst ==
    \A r \in listConversations(db) :
        /\ {r[i].id : i \in 1..Len(r)} = WithMessages(db)
        /\ Len(r) = Cardinality(WithMessages(db))
        /\ \A i, j \in 1..Len(r) : i < j => r[i].id > r[j].id

-----------------------------------------------------------------------------
(* The settings of a conversation *)

SettingsNext ==
    \/ Tick
    \/ CreateConversation
    \/ \E c \in ConvReqIds : DeleteConversation(c)
    \/ \E c \in ConvReqIds, body \in PatchBodies : UpdateConversation(c, body)
    \/ Reconcile(ConvReqIds, SeedLists, "Sound")
    \/ Branch("Sound")

SpecSettings == Init /\ [][SettingsNext]_vars

Has(body, k) == k \in DOMAIN body

(* C24: a PATCH of conversation c sets model and system prompt to the values  *)
(* of the fields model and systemPrompt of the request and nothing else:      *)
(* title, id and creation time of c, the other conversations and all          *)
(* messages stay as they were; a request with neither field is answered with  *)
(* a client error and changes nothing.                                        *)
C24_UpdateAppliesRecognizedFields ==
    [][\A c \in ConvReqIds, body \in PatchBodies :
         UpdateConversation(c, body) =>
            /\ db'.messages = db.messages /\ db'.messages_fts = db.messages_fts
            /\ db'.seq = db.seq
            /\ ConvIds(db') = ConvIds(db)
            /\ Cardinality(db'.conversations) = Cardinality(db.conversations)
            /\ \A v \in db.conversations : \E w \in db'.conversations :
                  /\ w.id = v.id /\ w.title = v.title /\ w.created_at = v.created_at
                  /\ v.id # c => w = v
                  /\ v.id = c =>
                       /\ w.model = IF Has(body, "model") THEN body["model"] ELSE v.model
                       /\ w.system_prompt = IF Has(body, "systemPrompt")
                                            THEN body["systemPrompt"] ELSE v.system_prompt
            /\ IF Has(body, "model") \/ Has(body, "systemPrompt")
               THEN last'.status = 200
               ELSE last'.status \in ClientErrors /\ db' = db]_vars

C24_Witness ==
    /\ last.op = "updateConversation" /\ last.status = 200
    /\ \E v, w \in db.conversations :
          /\ v.id = 1 /\ v.model = "edited" /\ v.system_prompt = "NULL"
          /\ v.title = <<"New Chat">>
          /\ w.id = 2 /\ w.model = "gemini" /\ w.system_prompt = "edited"
    /\ db.messages # {}

-----------------------------------------------------------------------------
(* Two chat turns at a time, on the same conversation or on two *)

TurnLists == {<<ApiMsg(1)>>}

TurnsNext ==
    \/ CreateConversation
    \/ ApiChat(Turns, ConvReqIds, TurnLists)
    \/ ModelOpens(Turns)
    \/ ModelRejects(Turns)
    \/ ModelChunk(Turns, MaxChunks)
    \/ ModelFails(Turns)
    \/ ModelCompletes(Turns, "Sound") /\ UNCHANGED completed

SpecTurns == Init /\ [][TurnsNext]_vars

\* the chunk texts the model produces for turn t
ChunksOf(t) == {ChunkChar(t, k) : k \in 1..MaxChunks}

Chars(text) == {text[i] : i \in 1..Len(text)}

(* C25: the accumulator of a chat turn holds only chunks produced for that    *)
(* turn, a step of another turn never changes it, and the model message a     *)
(* completing turn persists is the text of its own chunks, in order.          *)
C25_AccumulatorPrivate ==
    [][\A t \in Turns :
         /\ Chars(turn'[t].fullModelResponse) \subseteq ChunksOf(t)
         /\ (\E u \in Turns \ {t} : turn'[u] # turn[u]) =>
                turn'[t].fullModelResponse = turn[t].fullModelResponse
         /\ turn[t].pc = "streaming" /\ turn'[t].pc = "done" =>
                LET rows == Persisted(db', turn[t].conv)
                IN /\ rows # <<>>
                   /\ rows[Len(rows)] = [role |-> "model", content |-> turn[t].arrived]
                   /\ Chars(rows[Len(rows)].content) \subseteq ChunksOf(t)]_vars

C25_Witness ==
    /\ turn[1].pc = "done" /\ turn[2].pc = "streaming"
    /\ turn[1].conv = 1 /\ turn[2].conv = 2
    /\ turn[2].fullModelResponse = <<ChunkChar(2, 1), ChunkChar(2, 2)>>
    /\ Persisted(db, 1) = <<ApiMsg(1),
                            [role |-> "model", content |-> <<ChunkChar(1, 1), ChunkChar(1, 2)>>]>>
    /\ db.messages = MessagesOf(db, 1)

-----------------------------------------------------------------------------
(* A chat turn whose caller may leave while it streams *)

AbandonNext ==
    \/ CreateConversation /\ db.seq.conversations = 0
    \/ Reconcile({1}, RaceLists, "Sound")
    \/ ApiChat({2}, {1}, RaceLists)
    \/ \E t \in Turns : CallerDisconnects(t)
    \/ ModelOpens({2})
    \/ ModelRejects({2})
    \/ ModelChunk({2}, MaxChunks)
    \/ ModelFails({2})
    \/ ModelCompletes({2}, "Sound") /\ UNCHANGED completed

SpecAbandon == Init /\ [][AbandonNext]_vars

Abandoned(t) == turn[t].pc = "streaming" /\ turn[t].channel = "gone"

(* C26: a caller that disconnects while a chat turn streams cancels nothing:  *)
(* the disconnect ends neither the turn nor changes what it has accumulated,  *)
(* the server goes on taking the chunks of the model stream, and when the     *)
(* stream completes the turn is reconciled once and the conversation holds    *)
(* the submitted list followed by the whole model text.                       *)
C26_DisconnectCancelsNothing ==
    [][\A t \in Turns :
         /\ turn[t].channel = "open" /\ turn'[t].channel = "gone" =>
               /\ turn'[t].pc = "streaming"
               /\ turn'[t].fullModelResponse = turn[t].fullModelResponse
               /\ turn'[t].clientMessages = turn[t].clientMessages
               /\ db' = db
         /\ Abandoned(t) =>
               /\ Len(turn[t].arrived) < MaxChunks => ENABLED ChatChunk(t, FALSE, MaxChunks)
               /\ ENABLED ChatComplete(t, NoEnv)
               /\ turn'[t].arrived # turn[t].arrived =>
                     /\ turn'[t].pc = "streaming"
                     /\ turn'[t].fullModelResponse = turn'[t].arrived
               /\ StreamCompletes(t) =>
                     /\ turn'[t].pc = "done" /\ turn'[t].reconciles = 1
                     /\ Persisted(db', turn[t].conv) = TurnResult(t)]_vars

C26_Witness ==
    /\ turn[2].pc = "done" /\ turn[2].channel = "gone"
    /\ turn[2].written = <<ChunkChar(2, 1)>>
    /\ turn[2].arrived = <<ChunkChar(2, 1), ChunkChar(2, 2)>>
    /\ Persisted(db, 1) = <<ApiMsg(1), [role |-> "model", content |-> turn[2].arrived]>>

-----------------------------------------------------------------------------
(* Begin and cancel of an edit *)

Unedited(pg) == pg.editingMessageId = None /\ pg.editingContent = <<>>

(* C27: Begin edit makes the draft the current content of the target message, *)
(* Cancel leaves no message being edited and an empty draft; neither changes  *)
(* the in-memory list, storage or any request state, so that from an          *)
(* unedited page Begin followed by Cancel gives the page before Begin.        *)
C27_BeginCancelEdit ==
    [][/\ page.editingMessageId = None => page.editingContent = <<>>
       /\ \A i \in PagePositions :
             startEditing(i) =>
                /\ page'.editingMessageId = page.messages[i].id
                /\ page'.editingContent = page.messages[i].content
                /\ page' = [page EXCEPT !.editingMessageId = page'.editingMessageId,
                                        !.editingContent = page'.editingContent]
                /\ db' = db /\ turn' = turn /\ last' = last
                /\ Unedited(page) => cancelEditing(page') = page
       /\ CancelEdit =>
             /\ Unedited(page')
             /\ page' = [page EXCEPT !.editingMessageId = None, !.editingContent = <<>>]
             /\ db' = db /\ turn' = turn /\ last' = last]_vars

C27_Witness ==
    /\ page.editingMessageId # None /\ page.editingContent \in Prompts
    /\ Len(page.messages) >= 2
    /\ page.messages[1].id = page.editingMessageId
    /\ Persisted(db, 1) = RCSeq(page.messages)

-----------------------------------------------------------------------------
(* Leaving the chat page *)

\* the route ids a navigation may lead to (to.route.id is the route's pattern)
Routes == {"/", "/history", "/chat/[id]"}

\* `/chat/${conversationId}`
ChatPath(c) == IF c = 1 THEN "/chat/1" ELSE "/chat/2"

\* beforeNavigate: an empty in-memory list deletes the conversation; the page
\* is gone afterwards
Navigate(to) ==
    /\ page.loaded
    /\ ~inTransaction
    /\ IF Len(page.messages) = 0 /\ to # ChatPath(page.conversationId)
       THEN /\ db' = deleteConversationStmt(db, page.conversationId).db
            /\ last' = Response("deleteConversation", 204, None)
            /\ lastCommit' = [lastCommit EXCEPT ![page.conversationId] = NoCommit]
       ELSE UNCHANGED <<db, last, lastCommit>>
    /\ page' = [page EXCEPT !.loaded = FALSE, !.pc = "left"]
    /\ UNCHANGED <<now, inTransaction, turn, completed>>

NavigateNext ==
    \/ CreateConversation /\ db.seq.conversations = 0
    \/ Reconcile({1}, SeedLists, "Sound")
    \/ page.pc # "left" /\ OpenPage(1)
    \/ \E prompt \in Prompts : page.dateNow < MaxPageGens /\ handleSubmit(prompt)
    \/ PageResponse
    \/ PageRead
    \/ Typewriter
    \/ \E i \in PagePositions : handleDelete(i)
    \/ \E to \in Routes : Navigate(to)
    \/ ModelOpens({PageTurn})
    \/ ModelRejects({PageTurn})
    \/ ModelChunk({PageTurn}, 1)
    \/ ModelCompletes({PageTurn}, "Sound") /\ GenerationCompletes(PageTurn)

SpecNavigate == Init /\ [][NavigateNext]_vars

(* C28: when the user navigates away from the chat page of conversation c, c  *)
(* is deleted if and only if it has no persisted message.                     *)
C28_NavigationDeletesEmpty ==
    [][\A to \in Routes \ {"/chat/[id]"} :
         Navigate(to) /\ page.conversationId \in ConvIds(db) =>
            (page.conversationId \notin ConvIds(db')
                <=> MessagesOf(db, page.conversationId) = {})]_vars

-----------------------------------------------------------------------------
(* A message deleted while a turn of the page streams *)

\* the page's list without the placeholder of the turn in flight
Shown(pg) == SubSeq(pg.messages, 1, Len(pg.messages) - 1)

\* the messages the page read from storage, and those it made itself
Loaded(list) == SelectSeq(list, LAMBDA m : m.id < ClientIdBase)

Typed(list) == SelectSeq(list, LAMBDA m : m.id >= ClientIdBase)

\* the page's turn, started by a submit, streams; the prompt and the
\* placeholder of the turn are still in the list, every other message of the
\* list was read from storage, and storage holds exactly those: what the page
\* has deleted since it was opened was deleted from storage
DeletesWereStored(pg) ==
    /\ pg.loaded /\ pg.pc \in {"fetching", "reading"}
    /\ turn[PageTurn].pc = "streaming" /\ turn[PageTurn].conv = pg.conversationId
    /\ Len(pg.messages) >= 2
    /\ pg.messages[Len(pg.messages)].id = ClientIdBase + 2 * (pg.dateNow - 1) + 1
    /\ pg.messages[Len(pg.messages) - 1].id = ClientIdBase + 2 * (pg.dateNow - 1)
    /\ Len(Typed(pg.messages)) = 2
    /\ Persisted(db, pg.conversationId) = RCSeq(Loaded(pg.messages))

(* C29: a message that a Delete of the page removed from storage while the    *)
(* page's turn was streaming is not in storage after the turn completes: the  *)
(* conversation then holds the messages the page still shows, followed by     *)
(* the model text.                                                            *)
C29_DeletedStaysDeleted ==
    [][DeletesWereStored(page) /\ turn'[PageTurn].pc = "done" =>
          Persisted(db', page.conversationId) =
              RCSeq(Shown(page)) \o
                  <<[role |-> "model", content |-> turn[PageTurn].arrived]>>]_vars

-----------------------------------------------------------------------------
(* Saving an edit of a message that a user message follows *)

FollowedByUser(pg) ==
    /\ EditIndex(pg) < Len(pg.messages)
    /\ pg.messages[EditIndex(pg) + 1].role = "user"

\* the list with the typed text in the place of the edited message
EditedInPlace(pg) == [pg.messages EXCEPT ![EditIndex(pg)].content = pg.editingContent]

(* C30: saving an edit of a message that is followed by messages of which the *)
(* first is a user message removes no message: the in-memory list keeps       *)
(* every message and changes only the content of the edited one, and a        *)
(* conversation whose persisted history the page showed holds that list       *)
(* afterwards.                                                                *)
C30_EditKeepsFollowing ==
    [][SavesEdit /\ FollowedByUser(page) =>
          /\ page'.messages = EditedInPlace(page)
          /\ Persisted(db, page.conversationId) = RCSeq(page.messages) =>
                Persisted(db', page.conversationId) = RCSeq(EditedInPlace(page))]_vars

-----------------------------------------------------------------------------
(* The page while a response is loading.  The Edit and Save buttons stay     *)
(* enabled, and saveEdit does not look at isLoading: a save made while a     *)
(* generation runs starts a second invocation of generateResponse, whose     *)
(* request the server handles beside the first one.                          *)

OverlapTurn == 2

\* generateResponse up to  await fetch , called while another invocation runs
generateResponseBeside(pg, userPrompt) ==
    /\ pg.dateNow < MaxDateNow
    /\ pg.beside.pc = "idle"
    /\ ChatHandler(OverlapTurn, pg.conversationId, "list", RCSeq(messagesForApi(pg, userPrompt)))
    /\ page' = [pg EXCEPT
                  !.isLoading = TRUE,
                  !.messages = messagesForApi(pg, userPrompt) \o
                                 <<Message(ClientIdBase + 2 * pg.dateNow + 1, "model", <<>>)>>,
                  !.dateNow = @ + 1,
                  !.beside = [pc |-> "fetching", status |-> last'.status, read |-> 0]]

\* saveEdit, from the Save button, while isLoading is true
saveEditLoading ==
    /\ page.editingMessageId # None
    /\ page.isLoading
    /\ LET messageIndex == findIndex(page.messages, page.editingMessageId)
           isFollowedByModel ==
               /\ messageIndex < Len(page.messages)
               /\ page.messages[messageIndex + 1].role = "model"
           truncated == Truncate(page.messages, messageIndex, page.editingContent)
           pg == cancelEditing([page EXCEPT !.messages = truncated])
       IN /\ messageIndex # None
          /\ IF isFollowedByModel
             THEN generateResponseBeside(pg, <<>>)
             ELSE /\ db.seq.messages + Len(truncated) <= MaxMsgId
                  /\ ReconcileHandler(page.conversationId, "list", RCSeq(truncated), NoEnv)
                  /\ page' = [pg EXCEPT !.isLoading = FALSE]

\* catch and finally of the second invocation
CaughtBeside(pg) ==
    [pg EXCEPT !.messages = IF @ = <<>> THEN @ ELSE [@ EXCEPT ![Len(@)].content = Sorry],
               !.isLoading = FALSE, !.beside = NoCall]

FinishedBeside(pg) == [pg EXCEPT !.isLoading = FALSE, !.beside = NoCall]

\* await fetch of the second invocation resolves
BesideResponse ==
    /\ page.beside.pc = "fetching"
    /\ \/ /\ \/ page.beside.status = 404
             \/ turn[OverlapTurn].pc = "failed" /\ turn[OverlapTurn].status = 500
          /\ page' = CaughtBeside(page)
       \/ /\ page.beside.status # 404 /\ turn[OverlapTurn].status = 200
          /\ page' = [page EXCEPT !.beside.pc = "reading"]
    /\ UNCHANGED <<db, now, inTransaction, turn, last, lastCommit, completed>>

\* await reader.read() of the second invocation resolves
BesideRead ==
    /\ page.beside.pc = "reading"
    /\ LET tr == turn[OverlapTurn]
       IN IF page.beside.read < Len(tr.written)
          THEN page' = [page EXCEPT
                          !.typewriterQueue =
                              @ \o SubSeq(tr.written, page.beside.read + 1, Len(tr.written)),
                          !.beside.read = Len(tr.written)]
          ELSE \/ tr.channel = "ended" /\ page' = FinishedBeside(page)
               \/ tr.channel = "broken" /\ page' = CaughtBeside(page)
    /\ UNCHANGED <<db, now, inTransaction, turn, last, lastCommit, completed>>

OverlapNext ==
    \/ CreateConversation /\ db.seq.conversations = 0
    \/ ~page.loaded /\ Reconcile({1}, SeedLists, "Sound")
    \/ OpenPage(1)
    \/ \E prompt \in Prompts : page.dateNow < MaxPageGens /\ handleSubmit(prompt)
    \/ PageResponse
    \/ PageRead
    \/ Typewriter
    \/ \E i \in PagePositions : startEditing(i)
    \/ \E content \in EditTexts : EditInput(content)
    \/ page.dateNow < MaxPageGens /\ saveEdit
    \/ page.dateNow < MaxPageGens /\ saveEditLoading
    \/ BesideResponse
    \/ BesideRead
    \/ ModelOpens(Turns)
    \/ ModelRejects(Turns)
    \/ ModelChunk(Turns, 1)
    \/ \E t \in Turns : ModelCompletes({t}, "Sound") /\ GenerationCompletes(t)

SpecOverlap == Init /\ [][OverlapNext]_vars

\* the chat turns of the page's conversation that the server is working on
TurnsInFlight(pg) == {t \in Turns : InFlight(t) /\ turn[t].conv = pg.conversationId}

(* C31: one chat page has at most one chat turn in flight at any time: while  *)
(* a generation is loading, no submit, save or delete on the page starts a    *)
(* second turn for the conversation.                                          *)
C31_OneTurnInFlight ==
    page.loaded => Cardinality(TurnsInFlight(page)) <= 1

-----------------------------------------------------------------------------
(* The page after a turn *)

\* the turn of the page was stored, no request was made since, and the page
\* has read the whole response and typed every character of its queue
TurnShown(pg) ==
    /\ pg.loaded /\ pg.pc = "idle" /\ ~pg.isLoading
    /\ pg.typewriterQueue = <<>>
    /\ turn[PageTurn].pc = "done" /\ turn[PageTurn].conv = pg.conversationId
    /\ last.op = "persist" /\ last.status = 200

(* C32: after a chat turn that completed cleanly, with no other request on    *)
(* the conversation, and once the page has appended all received characters,  *)
(* the (role, content) sequence of the page's list equals the persisted       *)
(* (role, content) sequence of the conversation.                              *)
C32_ShownEqualsPersisted ==
    TurnShown(page) => RCSeq(page.messages) = Persisted(db, page.conversationId)

-----------------------------------------------------------------------------
(* Referential integrity *)

(* C33: in every reachable state the conversation id of every persisted       *)
(* message names an existing conversation: a reconcile for an id that was     *)
(* never created, and the final reconcile of a chat turn whose conversation   *)
(* was deleted while the turn was streaming, leave no message row behind.     *)
C33_MessagesHaveConversation ==
    \A m \in db.messages : m.conversation_id \in ConvIds(db)

\* a turn's reconcile has just failed, without a storage fault, on a
\* conversation deleted under it, while another conversation's rows are kept
C33_Witness ==
    /\ \E t \in Turns : turn[t].pc = "persistFailed" /\ turn[t].conv \notin ConvIds(db)
    /\ last = Response("persist", 500, 0)
    /\ db.seq.conversations >= 1

-----------------------------------------------------------------------------
(* Branching with two conversations in the store *)

MaxBranchConvs == 3

BranchOf(cs) ==
    \E c \in cs, id \in MsgReqIds :
        \E copy \in CopyResults(db, c, id) :
            /\ branch(db, c, id, copy, NoEnv).ok =>
                  /\ db.seq.conversations < MaxBranchConvs
                  /\ db.seq.messages + Len(copy) <= MaxMsgId
            /\ BranchRequest(c, id, copy, NoEnv)

BranchNext ==
    \/ Tick
    \/ CreateConversation
    \/ Reconcile(ConvReqIds, RaceLists, "Sound")
    \/ \E id \in MsgReqIds : DeleteMessage(id)
    \/ BranchOf(ConvReqIds)

SpecBranch == Init /\ [][BranchNext]_vars

(* C34: a branch request whose source message id exists but belongs to a      *)
(* conversation other than the given source conversation creates no           *)
(* conversation and copies no message.                                        *)
C34_BranchAcrossConversations ==
    [][\A c \in ConvReqIds, id \in MsgReqIds :
         /\ Branches(c, id)
         /\ id \in IdsOf(db.messages) /\ id \notin IdsOf(MessagesOf(db, c))
         => /\ db'.conversations = db.conversations
            /\ db'.messages = db.messages]_vars

-----------------------------------------------------------------------------
(* Writes and the conversations they do not name *)

FrameNext ==
    \/ CreateConversation /\ db.seq.conversations = 0
    \/ Branch("Sound")
    \/ Reconcile(ConvReqIds, RaceLists, "Sound")
    \/ \E id \in MsgReqIds : DeleteMessage(id)
    \/ \E id \in MsgReqIds : UpdateMessage(id, <<3>>)
    \/ ApiChat({2}, ConvReqIds, RaceLists \ {<<>>})
    \/ ModelOpens({2})
    \/ ModelChunk({2}, 1)
    \/ ModelCompletes({2}, "Sound") /\ UNCHANGED completed

SpecFrame == Init /\ [][FrameNext]_vars

\* the step leaves the rows of the conversations cs as they are
Kept(cs) == \A c \in cs : MessagesOf(db', c) = MessagesOf(db, c)

\* the step is a reconcile request for conversation c
ReconcilesList(c) == \E l \in RaceLists : ReconcileRequest(c, "list", l, NoEnv)

\* the step is the final reconcile of turn t
Persists(t) == turn[t].pc = "streaming" /\ turn'[t].pc \in {"done", "persistFailed"}

(* C35: writes are confined to their conversation: a reconcile, a chat-turn  *)
(* persist or a message delete or update on conversation c leaves the        *)
(* messages of every other conversation unchanged; a branch leaves its       *)
(* source as it was, and later writes to either leave the other unchanged.   *)
C35_WritesConfined ==
    [][/\ \A c \in ConvReqIds : ReconcilesList(c) => Kept(ConvReqIds \ {c})
       /\ \A t \in Turns : Persists(t) => Kept(ConvReqIds \ {turn[t].conv})
       /\ \A id \in MsgReqIds :
             DeleteMessage(id) \/ UpdateMessage(id, <<3>>) =>
                 Kept(ConvReqIds \ ConvsOfMsg(db, id))
       /\ BranchCommits => Kept(ConvReqIds \ {db'.seq.conversations})]_vars

\* conversation 2 is a branch of conversation 1 that holds a copy, and the
\* source was rewritten by a chat turn after the branch was made
C35_Witness ==
    /\ \E v \in db.conversations : v.id = 2 /\ v.title = BranchTitle(<<"New Chat">>)
    /\ Persisted(db, 2) # <<>>
    /\ last.op = "persist" /\ last.status = 200 /\ turn[2].conv = 1
    /\ \A m \in MessagesOf(db, 2) : \A n \in MessagesOf(db, 1) : m.id < n.id
    /\ Persisted(db, 1) # Persisted(db, 2)

-----------------------------------------------------------------------------
(* The end of the response and the commit *)

\* the step in which the caller of turn t gets the end of a streamed response
ResponseEnds(t) ==
    /\ turn[t].channel # "ended" /\ turn'[t].channel = "ended"
    /\ turn'[t].status = 200

(* C36: whenever the reconcile of a chat turn commits, it commits before the  *)
(* server closes the response channel: at the instant the caller observes the *)
(* end of a cleanly completed stream, a read of the conversation already      *)
(* returns the new turn.                                                      *)
C36_CommitBeforeEnd ==
    [][\A t \in Turns :
         /\ ResponseEnds(t) =>
              /\ turn'[t].reconciles = 1 /\ last' = Response("persist", 200, None)
              /\ \E h \in getConversationHistoryStmt(db', turn[t].conv) :
                    RCSeq(h) = TurnResult(t)
              /\ Persisted(db', turn[t].conv) = TurnResult(t)
         /\ turn'[t].reconciles > turn[t].reconciles /\ turn'[t].pc = "done" =>
              turn[t].channel = "open"]_vars

C36_Witness ==
    /\ turn[2].channel = "ended" /\ turn[2].status = 200 /\ turn[2].pc = "done"
    /\ last = Response("persist", 200, None)
    /\ Len(Persisted(db, turn[2].conv)) = 2
    /\ Persisted(db, turn[2].conv)[2] = [role |-> "model", content |-> turn[2].arrived]
    /\ Len(turn[2].arrived) = 1

-----------------------------------------------------------------------------
(* The empty list *)

\* the step is a reconcile request for conversation c with the list []
ReconcilesEmpty(c) == ReconcileRequest(c, "list", <<>>, NoEnv)

(* C37: a reconcile with an empty message list is accepted, it is not a       *)
(* validation error, and removes every persisted message of the conversation  *)
(* while keeping the conversation row itself.                                 *)
C37_EmptyListClears ==
    [][\A c \in ConvReqIds :
         ReconcilesEmpty(c) =>
            /\ last' = Response("reconcile", 200, None)
            /\ MessagesOf(db', c) = {}
            /\ db'.messages = db.messages \ MessagesOf(db, c)
            /\ db'.conversations = db.conversations
            /\ db'.seq = db.seq]_vars

\* conversation 1 was written with a list and then with the empty list: it
\* is there and holds nothing
C37_Witness ==
    /\ last = Response("reconcile", 200, None)
    /\ 1 \in ConvIds(db) /\ MessagesOf(db, 1) = {}
    /\ lastCommit[1] = [list |-> <<>>, first |-> MaxLen + 1]
    /\ db.seq.conversations = 1

-----------------------------------------------------------------------------
(* The model message of a completed turn *)

\* the history is the client list of turn t followed by exactly one message,
\* a model message with the text that arrived
OneTrailingModel(h, t) ==
    /\ Len(h) = Len(turn[t].clientMessages) + 1
    /\ SubSeq(h, 1, Len(h) - 1) = RCSeq(turn[t].clientMessages)
    /\ h[Len(h)] = [role |-> "model", content |-> turn[t].arrived]
    /\ turn[t].arrived = turn[t].fullModelResponse

(* C38 as stated: a chat turn whose model stream completes cleanly always     *)
(* persists exactly one trailing model message, also when the stream produced *)
(* no non-empty chunk: the persisted history then has the length of the       *)
(* client list plus one, and its last message has role model and empty        *)
(* content.                                                                   *)
C38_CompletedTurnHasModelMessage ==
    [][\A t \in Turns :
         StreamCompletes(t) => OneTrailingModel(Persisted(db', turn[t].conv), t)]_vars

(* C38 amended: a chat turn whose model stream completes cleanly and whose    *)
(* reconcile commits persists exactly one trailing model message, also when   *)
(* the stream produced no non-empty chunk: the persisted history then has the *)
(* length of the client list plus one, and its last message has role model    *)
(* and empty content.                                                         *)
C38_CommittedTurnHasModelMessage ==
    [][\A t \in Turns :
         StreamCompletes(t) /\ turn'[t].pc = "done" =>
             OneTrailingModel(Persisted(db', turn[t].conv), t)]_vars

\* a turn with a one-message list and no text has been stored
C38_Witness ==
    /\ turn[2].pc = "done" /\ turn[2].arrived = <<>> /\ turn[2].written = <<>>
    /\ last = Response("persist", 200, None)
    /\ Len(lastCommit[turn[2].conv].list) = 2
    /\ Len(Persisted(db, turn[2].conv)) = 2
    /\ Persisted(db, turn[2].conv)[2] = [role |-> "model", content |-> <<>>]

=============================================================================
